---- MODULE Spec2Model ----
(***************************************************************************)
(* Asymptote: the CodeLens complexity analyzer of src/src/extension.ts     *)
(* (AsymptoteCodeLensProvider) and the fingerprint registry of             *)
(* src/src/analyzer/AlgorithmRegistry.ts.                                  *)
(*                                                                         *)
(* JavaScript strings are sequences of one-character strings, so that      *)
(* includes, startsWith, replace, split and parseInt are computed on the   *)
(* characters as the code computes them.  A syntax node is a record        *)
(*   [type, text, children, body]                                          *)
(* where children is the ordered sequence of child nodes, text is the      *)
(* source slice (kept for the nodes whose text the analyzer reads, the     *)
(* callee and the argument list of a call, and for the assignments that    *)
(* scale a loop counter) and body is the index in children of the child    *)
(* bound to the field 'body' (0 when there is none).                       *)
(* Anonymous tokens (keywords, punctuation) are left out of children: no   *)
(* token type is a loop, a block, a call, an identifier or contains a      *)
(* registry literal, so none of them changes any decision of the analyzer. *)
(***************************************************************************)
EXTENDS Integers, Sequences, FiniteSets, TLC

VARIABLES tree, funcName, registry, lens, calc,
          editor, exe, commands, runs, sessions, currentInteractiveProcess,
          outbox, webview, walk

\* the state of the sidebar test runner (SidebarProvider and its webview)
runnerVars == <<editor, exe, commands, runs, sessions,
                currentInteractiveProcess, outbox, webview>>

vars == <<tree, funcName, registry, lens, calc, runnerVars, walk>>

\* currentInteractiveProcess === undefined
NoProcess == 0

\* no analysis of the function body is in progress
NoWalk == [active |-> FALSE, stack |-> <<>>, steps |-> 0]

\* the sidebar before any test case is added and any command is sent: a
\* source file is open, nothing is compiled, no process was spawned
RunnerIdle ==
  /\ editor = TRUE
  /\ exe = FALSE
  /\ commands = <<>>
  /\ runs = <<>>
  /\ sessions = <<>>
  /\ currentInteractiveProcess = NoProcess
  /\ outbox = <<>>
  /\ webview = [cases |-> <<>>, runBtnDisabled |-> FALSE,
                interactiveStartHidden |-> FALSE]

(***************************************************************************)
(* String primitives.                                                      *)
(***************************************************************************)
Includes(s, pat) ==
  \E i \in 0..(Len(s) - Len(pat)) : SubSeq(s, i + 1, i + Len(pat)) = pat

StartsWith(s, pat) ==
  Len(s) >= Len(pat) /\ SubSeq(s, 1, Len(pat)) = pat

Digits == <<"0", "1", "2", "3", "4", "5", "6", "7", "8", "9">>

IsDigit(c) == \E d \in 1..10 : Digits[d] = c

DigitValue(c) == (CHOOSE d \in 1..10 : Digits[d] = c) - 1

\* `${n}` for a non-negative integer n
RECURSIVE NumberToString(_)
NumberToString(n) ==
  IF n < 10 THEN <<Digits[n + 1]>>
  ELSE NumberToString(n \div 10) \o <<Digits[(n % 10) + 1]>>

\* parseInt(s): the value of the leading run of decimal digits; NaN (no
\* leading digit) is represented by 0, which `|| 1` treats like NaN.
RECURSIVE ParseDigits(_, _, _)
ParseDigits(s, i, acc) ==
  IF i > Len(s) \/ ~IsDigit(s[i]) THEN acc
  ELSE ParseDigits(s, i + 1, acc * 10 + DigitValue(s[i]))

parseInt(s) == ParseDigits(s, 1, 0)

\* s.split('^')[1]: the text between the first '^' and the next one (or the
\* end); the empty text stands for undefined when s holds no '^'.
SplitCaret1(s) ==
  LET carets == {i \in 1..Len(s) : s[i] = "^"}
  IN  IF carets = {} THEN <<>>
      ELSE LET first == CHOOSE i \in carets : \A j \in carets : i <= j
               rest == {j \in carets : j > first}
               stop == IF rest = {} THEN Len(s) + 1
                       ELSE CHOOSE j \in rest : \A k \in rest : j <= k
           IN  SubSeq(s, first + 1, stop - 1)

\* s.replace(/O\(|\)/g, ''): left to right, drop every "O(" and every ")"
RECURSIVE StripO(_, _)
StripO(s, i) ==
  IF i > Len(s) THEN <<>>
  ELSE IF i < Len(s) /\ s[i] = "O" /\ s[i + 1] = "(" THEN StripO(s, i + 2)
  ELSE IF s[i] = ")" THEN StripO(s, i + 1)
  ELSE <<s[i]>> \o StripO(s, i + 1)

(***************************************************************************)
(* Complexity labels and reason texts used by the analyzer.                *)
(***************************************************************************)
O1 == <<"O", "(", "1", ")">>
ON == <<"O", "(", "N", ")">>
OLogN == <<"O", "(", "l", "o", "g", " ", "N", ")">>
ONLogN == <<"O", "(", "N", " ", "l", "o", "g", " ", "N", ")">>
O2N == <<"O", "(", "2", "^", "N", ")">>
ON2 == <<"O", "(", "N", "^", "2", ")">>

\* `O(N^${k})`
ONPow(k) == <<"O", "(", "N", "^">> \o NumberToString(k) \o <<")">>

ConstantTimeReason ==
  <<"C", "o", "n", "s", "t", "a", "n", "t", " ", "t", "i", "m", "e", " ",
    "o", "p", "e", "r", "a", "t", "i", "o", "n", "s">>

MatchesPatternPrefix ==
  <<"M", "a", "t", "c", "h", "e", "s", " ", "p", "a", "t", "t", "e", "r",
    "n", ":", " ">>

RecursivePrefix ==
  <<"R", "e", "c", "u", "r", "s", "i", "v", "e", " ", "(">>

RecursiveDetectedPrefix ==
  <<"R", "e", "c", "u", "r", "s", "i", "v", "e", " ", "c", "a", "l", "l",
    "s", " ", "d", "e", "t", "e", "c", "t", "e", "d", " ", "(">>

LoopWrappingPrefix ==
  <<"L", "o", "o", "p", " ", "(", "O", "(", "N", ")", ")", " ", "w", "r",
    "a", "p", "p", "i", "n", "g", ":", " ">>

BinarySearchName ==
  <<"B", "i", "n", "a", "r", "y", " ", "S", "e", "a", "r", "c", "h", " ",
    "L", "o", "g", "i", "c">>

BubbleSortName ==
  <<"B", "u", "b", "b", "l", "e", " ", "S", "o", "r", "t", " ", "L", "o",
    "g", "i", "c">>

(***************************************************************************)
(* multiplyComplexity and compareComplexity.                               *)
(***************************************************************************)
\* multiplyComplexity without the line `if (cleanInner === 'N')`
multiplyComplexityNoSquare(outer, inner) ==
  IF inner = O1 THEN outer
  ELSE IF outer = O1 THEN inner
  ELSE LET cleanOuter == StripO(outer, 1)
           cleanInner == StripO(inner, 1)
       IN  IF StartsWith(cleanInner, <<"N", "^">>)
           THEN LET parsed == parseInt(SplitCaret1(cleanInner))
                    power == IF parsed = 0 THEN 1 ELSE parsed
                IN  ONPow(power + 1)
           ELSE <<"O", "(">> \o cleanOuter \o <<" ">> \o cleanInner \o <<")">>

\* multiplyComplexity without its second line (`outer === "O(1)"`)
multiplyComplexityNoOuterIdentity(outer, inner) ==
  IF inner = O1 THEN outer
  ELSE LET cleanOuter == StripO(outer, 1)
           cleanInner == StripO(inner, 1)
       IN  IF StartsWith(cleanInner, <<"N", "^">>)
           THEN LET parsed == parseInt(SplitCaret1(cleanInner))
                    power == IF parsed = 0 THEN 1 ELSE parsed
                IN  ONPow(power + 1)
           ELSE IF cleanInner = <<"N">> THEN ON2
           ELSE <<"O", "(">> \o cleanOuter \o <<" ">> \o cleanInner \o <<")">>

multiplyComplexity(outer, inner) ==
  IF inner = O1 THEN outer
  ELSE IF outer = O1 THEN inner
  ELSE LET cleanOuter == StripO(outer, 1)
           cleanInner == StripO(inner, 1)
       IN  IF StartsWith(cleanInner, <<"N", "^">>)
           THEN LET parsed == parseInt(SplitCaret1(cleanInner))
                    power == IF parsed = 0 THEN 1 ELSE parsed
                IN  ONPow(power + 1)
           ELSE IF cleanInner = <<"N">> THEN ON2
           ELSE <<"O", "(">> \o cleanOuter \o <<" ">> \o cleanInner \o <<")">>

score(c) ==
  IF Includes(c, <<"2", "^", "N">>) THEN 100
  ELSE IF Includes(c, <<"N", "^", "3">>) THEN 40
  ELSE IF Includes(c, <<"N", "^", "2">>) THEN 30
  ELSE IF Includes(c, <<"N", " ", "l", "o", "g", " ", "N">>) THEN 20
  ELSE IF Includes(c, <<"N">>) THEN 10
  ELSE IF Includes(c, <<"l", "o", "g", " ", "N">>) THEN 5
  ELSE 1

\* compareComplexity returning whether a scores higher, as a number
compareComplexityGreaterOnly(a, b) == IF score(a) > score(b) THEN 1 ELSE 0

compareComplexity(a, b) == score(a) - score(b)

(***************************************************************************)
(* Syntax nodes, as web-tree-sitter hands them to the analyzer.            *)
(***************************************************************************)
Node(type, text, children, body) ==
  [type |-> type, text |-> text, children |-> children, body |-> body]

Leaf(type) == Node(type, <<>>, <<>>, 0)

\* node.childForFieldName('body')
BodyOf(node) == node.children[node.body]

\* callNode.childForFieldName('function'): the callee is the first child
FunctionOf(callNode) == callNode.children[1]

\* callNode.childForFieldName('arguments'): the argument list is the second
ArgumentsOf(callNode) == callNode.children[2]

isLoop(node) ==
  \/ node.type = "for_statement"
  \/ node.type = "while_statement"
  \/ node.type = "do_statement"

(***************************************************************************)
(* getStructureSignature: the pre-order walk.  The signature is kept as    *)
(* the sequence of its tokens: "#" for an identifier or a number literal,  *)
(* the node type (which the code follows by '|') otherwise.                *)
(***************************************************************************)
RECURSIVE getStructureSignature(_)
RECURSIVE SignatureOfChildren(_, _)
\* getStructureSignature appending the text of an identifier or a literal
getStructureSignatureWithText(node) ==
  (IF node.type = "identifier" \/ node.type = "number_literal"
   THEN <<"#">> \o node.text
   ELSE <<node.type>>) \o SignatureOfChildren(node.children, 1)

getStructureSignature(node) ==
  (IF node.type = "identifier" \/ node.type = "number_literal"
   THEN <<"#">>
   ELSE <<node.type>>) \o SignatureOfChildren(node.children, 1)

SignatureOfChildren(children, i) ==
  IF i > Len(children) THEN <<>>
  ELSE getStructureSignature(children[i]) \o SignatureOfChildren(children, i + 1)

(***************************************************************************)
(* AlgorithmRegistry.  A regex of the registry is literal1.*literal2.*...  *)
(* with alternations; it is kept as the sequence of its sets of literals.  *)
(* No literal holds '|' or '#', so an occurrence of a literal in the       *)
(* signature lies inside one type name.                                    *)
(***************************************************************************)
\* src/src/analyzer/AlgorithmRegistry.ts
RegistryOneRule ==
  << [name |-> BinarySearchName, complexity |-> OLogN,
      regex |-> << {"while_statement"}, {"compound_statement"},
                   {"declaration"}, {"if_statement"} >>] >>

\* the registry with the widened binary-search rule and the bubble-sort rule
RegistryTwoRules ==
  << [name |-> BinarySearchName, complexity |-> OLogN,
      regex |-> << {"while_statement"}, {"compound_statement"},
                   {"declaration", "expression_statement"},
                   {"if_statement"} >>],
     [name |-> BubbleSortName, complexity |-> ON2,
      regex |-> << {"for_statement"}, {"compound_statement"},
                   {"for_statement"}, {"compound_statement"},
                   {"if_statement"},
                   {"expression_statement", "declaration"} >>] >>

\* the registry file the extension was built with
Registries == {"OneRule", "TwoRules"}

RulesOf(name) == IF name = "OneRule" THEN RegistryOneRule ELSE RegistryTwoRules

\* does the type name hold the literal as a substring: among the node types
\* of the documents modelled here, only the literal itself does
TypeIncludes(token, literal) == token = literal

\* regex.test(signature) from token position `from`, literal k onwards:
\* `.*` lets each literal take its leftmost occurrence after the previous one
RECURSIVE RegexTestFrom(_, _, _, _)
RegexTestFrom(regex, k, signature, from) ==
  IF k > Len(regex) THEN TRUE
  ELSE LET hits == {i \in from..Len(signature) :
                      \E literal \in regex[k] : TypeIncludes(signature[i], literal)}
       IN  IF hits = {} THEN FALSE
           ELSE LET first == CHOOSE i \in hits : \A j \in hits : i <= j
                IN  RegexTestFrom(regex, k + 1, signature, first + 1)

\* the regex anchored at the start of the signature (/^literal1.*.../)
RegexTestAnchored(regex, signature) ==
  /\ Len(signature) >= 1
  /\ \E literal \in regex[1] : TypeIncludes(signature[1], literal)
  /\ RegexTestFrom(regex, 2, signature, 2)

RegexTest(regex, signature) == RegexTestFrom(regex, 1, signature, 1)

\* null
NoAlgo == [name |-> <<>>, complexity |-> <<>>, regex |-> <<>>]

\* AlgorithmRegistry.match: the first rule whose regex tests true
match(reg, signature) ==
  LET hits == {k \in 1..Len(reg) : RegexTest(reg[k].regex, signature)}
  IN  IF hits = {} THEN NoAlgo
      ELSE reg[CHOOSE k \in hits : \A j \in hits : k <= j]

(***************************************************************************)
(* analyzeRecursion.                                                       *)
(***************************************************************************)
\* the nodes of a subtree in the order traverse visits them (pre-order)
RECURSIVE Preorder(_)
RECURSIVE PreorderOfChildren(_, _)
\* traverse stopping at conditionals: the children of an if_statement are
\* not visited
PreorderSkippingConditionals(currentNode) ==
  <<currentNode>>
    \o (IF currentNode.type = "if_statement" THEN <<>>
        ELSE PreorderOfChildren(currentNode.children, 1))

Preorder(currentNode) ==
  <<currentNode>> \o PreorderOfChildren(currentNode.children, 1)

PreorderOfChildren(children, i) ==
  IF i > Len(children) THEN <<>>
  ELSE Preorder(children[i]) \o PreorderOfChildren(children, i + 1)

\* the callee compared by includes instead of ===
IsSelfCallBySubstring(currentNode, name) ==
  /\ currentNode.type = "call_expression"
  /\ Len(currentNode.children) >= 1
  /\ Includes(currentNode.children[1].text, name)

\* the self-call test without the comparison of the callee's text
IsSelfCallAnyCallee(currentNode, name) ==
  /\ currentNode.type = "call_expression"
  /\ Len(currentNode.children) >= 1

\* currentNode.type === 'call_expression' && functionNode
\*   && functionNode.text === funcName
IsSelfCall(currentNode, name) ==
  /\ currentNode.type = "call_expression"
  /\ Len(currentNode.children) >= 1
  /\ FunctionOf(currentNode).text = name

\* the division branch without the test for '>>'
HasDivisionMarkerSlashOnly(callNode) ==
  /\ Len(callNode.children) >= 2
  /\ Includes(callNode.children[2].text, <<"/">>)

\* the first branch taken on the arguments of a self-call
HasDivisionMarker(callNode) ==
  /\ Len(callNode.children) >= 2
  /\ LET args == ArgumentsOf(callNode).text
     IN  Includes(args, <<"/">>) \/ Includes(args, <<">", ">">>)

\* the else-if branch taken on the arguments of a self-call
HasSubtractionMarker(callNode) ==
  /\ Len(callNode.children) >= 2
  /\ ~HasDivisionMarker(callNode)
  /\ LET args == ArgumentsOf(callNode).text
     IN  Includes(args, <<"-">>) \/ Includes(args, <<"-", "-">>)

\* the closure variables of analyzeRecursion after traverse(node): callCount
\* is incremented once per self-call visited, each flag is set when some
\* self-call takes its branch
traverseCalls(node, name) ==
  LET visited == Preorder(node)
      selfCalls == {i \in 1..Len(visited) : IsSelfCall(visited[i], name)}
  IN  [callCount |-> Cardinality(selfCalls),
       hasDivision |-> \E i \in selfCalls : HasDivisionMarker(visited[i]),
       hasSubtraction |-> \E i \in selfCalls : HasSubtractionMarker(visited[i])]

\* null
NoRecursion == <<>>

\* analyzeRecursion with the branching threshold at three calls
analyzeRecursionThreeCalls(node, name) ==
  LET found == traverseCalls(node, name)
  IN  IF found.callCount = 0 THEN NoRecursion
      ELSE IF found.callCount >= 3 THEN O2N
      ELSE IF found.hasDivision THEN OLogN
      ELSE ON

analyzeRecursion(node, name) ==
  LET found == traverseCalls(node, name)
  IN  IF found.callCount = 0 THEN NoRecursion
      ELSE IF found.callCount >= 2 THEN O2N
      ELSE IF found.hasDivision THEN OLogN
      ELSE IF found.hasSubtraction THEN ON
      ELSE ON

(***************************************************************************)
(* analyzeBlock.                                                           *)
(***************************************************************************)
RECURSIVE analyzeBlock(_, _, _)
RECURSIVE analyzeChildren(_, _, _, _, _)

\* one iteration of `for (const child of children)`: acc is
\* {maxComplexity, reason} before the child, the value is the pair after it
analyzeChild(child, name, reg, acc) ==
  IF isLoop(child)
  THEN LET bodyResult == analyzeBlock(BodyOf(child), name, reg)
           combined == multiplyComplexity(ON, bodyResult.complexity)
       IN  IF compareComplexity(combined, acc.complexity) > 0
           THEN [complexity |-> combined,
                 reason |-> LoopWrappingPrefix \o bodyResult.complexity]
           ELSE acc
  ELSE IF child.type = "compound_statement" \/ child.type = "if_statement"
  THEN LET nested == analyzeBlock(child, name, reg)
       IN  IF compareComplexity(nested.complexity, acc.complexity) > 0
           THEN nested
           ELSE acc
  ELSE acc

analyzeChildren(children, i, name, reg, acc) ==
  IF i > Len(children) THEN acc
  ELSE analyzeChildren(children, i + 1, name, reg,
                       analyzeChild(children[i], name, reg, acc))

analyzeBlock(node, name, reg) ==
  LET signature == getStructureSignature(node)
      algo == match(reg, signature)
  IN  IF algo # NoAlgo
      THEN [complexity |-> algo.complexity,
            reason |-> MatchesPatternPrefix \o algo.name]
      ELSE LET recComplexity == analyzeRecursion(node, name)
           IN  IF recComplexity # NoRecursion
               THEN [complexity |-> RecursivePrefix \o recComplexity \o <<")">>,
                     reason |-> RecursiveDetectedPrefix \o recComplexity \o <<")">>]
               ELSE analyzeChildren(node.children, 1, name, reg,
                                    [complexity |-> O1, reason |-> ConstantTimeReason])

\* the nodes analyzeBlock(node) calls itself on, when it reaches its loop
\* over the children: the body of each loop, each block, each conditional
NestedBlocks(node) ==
  {BodyOf(node.children[i]) :
     i \in {j \in 1..Len(node.children) : isLoop(node.children[j])}}
    \cup {node.children[i] :
            i \in {j \in 1..Len(node.children) :
                     /\ ~isLoop(node.children[j])
                     /\ node.children[j].type \in {"compound_statement", "if_statement"}}}

\* the calls multiplyComplexity(outer, inner) that analyzeBlock(node) makes
\* in its loop over the children
MultiplyCalls(node, name, reg) ==
  {[outer |-> ON, inner |-> analyzeBlock(BodyOf(node.children[i]), name, reg).complexity] :
     i \in {j \in 1..Len(node.children) : isLoop(node.children[j])}}

(***************************************************************************)
(* Documents.  The parser and the query of provideCodeLenses hand the      *)
(* analyzer the compound_statement that is the body of a function and the  *)
(* text of its name.  The statements below are the trees tree-sitter-cpp   *)
(* builds for the C++ text named in the comment.                           *)
(***************************************************************************)
\* i++;
SimpleStmt ==
  Node("expression_statement", <<>>,
       <<Node("update_expression", <<>>, <<Leaf("identifier")>>, 0)>>, 0)

\* k *= 2;
AssignStmt ==
  Node("expression_statement", <<>>,
       <<Node("assignment_expression", <<>>,
              <<Leaf("identifier"), Leaf("number_literal")>>, 0)>>, 0)

\* int m = 0;
DeclStmt ==
  Node("declaration", <<>>,
       <<Leaf("primitive_type"),
         Node("init_declarator", <<>>,
              <<Leaf("identifier"), Leaf("number_literal")>>, 0)>>, 0)

\* (a < b)
ConditionClause ==
  Node("condition_clause", <<>>,
       <<Node("binary_expression", <<>>,
              <<Leaf("identifier"), Leaf("identifier")>>, 0)>>, 0)

\* callee(args), callee an identifier or a member access such as obj.f
Callee(text) ==
  IF Includes(text, <<".">>)
  THEN Node("field_expression", text,
            <<Leaf("identifier"), Leaf("field_identifier")>>, 0)
  ELSE Node("identifier", text, <<>>, 0)

ArgumentList(text) ==
  Node("argument_list", text,
       IF Len(text) > 3
       THEN <<Node("binary_expression", <<>>,
                   <<Leaf("identifier"), Leaf("number_literal")>>, 0)>>
       ELSE <<Leaf("identifier")>>, 0)

CallExpr(callee, args) ==
  Node("call_expression", <<>>, <<Callee(callee), ArgumentList(args)>>, 0)

\* callee(args);
CallStmt(callee, args) ==
  Node("expression_statement", <<>>, <<CallExpr(callee, args)>>, 0)

\* return callee(args1) + callee(args2);
ReturnSumStmt(callee, args1, args2) ==
  Node("return_statement", <<>>,
       <<Node("binary_expression", <<>>,
              <<CallExpr(callee, args1), CallExpr(callee, args2)>>, 0)>>, 0)

\* { stmts }
Block(stmts) == Node("compound_statement", <<>>, stmts, 0)

\* for (i = 0; i < n; i++) body
ForLoop(body) ==
  Node("for_statement", <<>>,
       <<Node("assignment_expression", <<>>,
              <<Leaf("identifier"), Leaf("number_literal")>>, 0),
         Node("binary_expression", <<>>,
              <<Leaf("identifier"), Leaf("identifier")>>, 0),
         Node("update_expression", <<>>, <<Leaf("identifier")>>, 0),
         body>>, 4)

\* for (int i = 0; i < n; i++) body
ForDeclLoop(body) ==
  Node("for_statement", <<>>,
       <<DeclStmt,
         Node("binary_expression", <<>>,
              <<Leaf("identifier"), Leaf("identifier")>>, 0),
         Node("update_expression", <<>>, <<Leaf("identifier")>>, 0),
         body>>, 4)

\* i *= 2, i >>= 2: an assignment whose operator text is op
ScaleExpr(op) ==
  Node("assignment_expression", <<"i", " ">> \o op \o <<" ", "2">>,
       <<Leaf("identifier"), Leaf("number_literal")>>, 0)

\* i *= 2;
ScaleStmt(op) ==
  Node("expression_statement", <<"i", " ">> \o op \o <<" ", "2", ";">>,
       <<ScaleExpr(op)>>, 0)

\* for (i = 1; i < n; i *= 2) body
ForScaledLoop(body) ==
  Node("for_statement", <<>>,
       <<Node("assignment_expression", <<>>,
              <<Leaf("identifier"), Leaf("number_literal")>>, 0),
         Node("binary_expression", <<>>,
              <<Leaf("identifier"), Leaf("identifier")>>, 0),
         ScaleExpr(<<"*", "=">>),
         body>>, 4)

\* while (a < b) body
WhileLoop(body) == Node("while_statement", <<>>, <<ConditionClause, body>>, 2)

\* do body while (a < b);
DoLoop(body) ==
  Node("do_statement", <<>>,
       <<body,
         Node("parenthesized_expression", <<>>,
              <<Node("binary_expression", <<>>,
                     <<Leaf("identifier"), Leaf("identifier")>>, 0)>>, 0)>>, 1)

\* if (a < b) consequence
IfThen(consequence) ==
  Node("if_statement", <<>>, <<ConditionClause, consequence>>, 0)

\* if (a < b) consequence else alternative
IfThenElse(consequence, alternative) ==
  Node("if_statement", <<>>,
       <<ConditionClause, consequence,
         Node("else_clause", <<>>, <<alternative>>, 0)>>, 0)

\* if (a < b) {} else alternative, the else arm under an else_clause node
IfElseClause(alternative) ==
  Node("if_statement", <<>>,
       <<ConditionClause, Block(<<>>),
         Node("else_clause", <<>>, <<alternative>>, 0)>>, 0)

\* if (a < b) {} else alternative, the else arm a direct child (the grammar
\* before else_clause was introduced)
IfElseBare(alternative) ==
  Node("if_statement", <<>>, <<ConditionClause, Block(<<>>), alternative>>, 0)

\* switch (a < b) { case 0: stmt }
SwitchCase(stmt) ==
  Node("switch_statement", <<>>,
       <<ConditionClause,
         Block(<<Node("case_statement", <<>>,
                      <<Leaf("number_literal"), stmt>>, 0)>>)>>, 0)

\* the statement that the edit `wrapper` puts around stmt
Wrap(wrapper, stmt) ==
  CASE wrapper = "for" -> ForLoop(stmt)
    [] wrapper = "for_decl" -> ForDeclLoop(stmt)
    [] wrapper = "while" -> WhileLoop(stmt)
    [] wrapper = "do" -> DoLoop(stmt)
    [] wrapper = "for_scaled" -> ForScaledLoop(stmt)
    [] wrapper = "braced_for" -> ForLoop(Block(<<stmt>>))
    [] wrapper = "braced_while" -> WhileLoop(Block(<<stmt>>))
    [] wrapper = "block" -> Block(<<stmt>>)
    [] wrapper = "if" -> IfThen(stmt)
    [] wrapper = "else_clause" -> IfElseClause(stmt)
    [] wrapper = "else" -> IfElseBare(stmt)
    [] wrapper = "switch" -> SwitchCase(stmt)

\* the statement kinds: what one edit of the user adds to the document
StatementTypes ==
  {"expression_statement", "declaration", "return_statement",
   "compound_statement", "for_statement", "while_statement", "do_statement",
   "if_statement", "switch_statement"}

\* the number of statements of a subtree (the size of the document)
RECURSIVE StatementCount(_)
RECURSIVE StatementCountOfChildren(_, _)
StatementCount(node) ==
  (IF node.type \in StatementTypes THEN 1 ELSE 0)
    + StatementCountOfChildren(node.children, 1)

StatementCountOfChildren(children, i) ==
  IF i > Len(children) THEN 0
  ELSE StatementCount(children[i]) + StatementCountOfChildren(children, i + 1)

\* no lens shown (the document changed since the last analysis)
NoLens == [complexity |-> <<>>, reason |-> <<>>]

FunctionNames == {<<"f">>, <<"g">>}

\* no comparison or product computed
NotComputed ==
  [a |-> <<>>, b |-> <<>>, cmp |-> 0, cmpBack |-> 0,
   product |-> <<>>, productBack |-> <<>>, done |-> {}]

(***************************************************************************)
(* Operations: the user edits the function body, VS Code asks the provider *)
(* for the lenses of the document.                                         *)
(***************************************************************************)
\* the body `{}` of a function, before any statement is typed
Init ==
  /\ tree = Block(<<>>)
  /\ funcName \in FunctionNames
  /\ registry \in Registries
  /\ lens = NoLens
  /\ calc = NotComputed
  /\ RunnerIdle
  /\ walk = NoWalk

\* the user types stmt at the end of the function body
AppendStatement(stmt, maxStatements) ==
  /\ StatementCount(tree) + StatementCount(stmt) <= maxStatements
  /\ tree' = Block(Append(tree.children, stmt))
  /\ lens' = NoLens
  /\ UNCHANGED <<funcName, registry, calc, runnerVars, walk>>

\* the user puts a loop, a block or a conditional around the last statement
WrapLast(wrapper, maxStatements) ==
  /\ Len(tree.children) >= 1
  /\ LET n == Len(tree.children)
         wrapped == Wrap(wrapper, tree.children[n])
     IN  /\ StatementCount(tree) - StatementCount(tree.children[n])
               + StatementCount(wrapped) <= maxStatements
         /\ tree' = Block([tree.children EXCEPT ![n] = wrapped])
  /\ lens' = NoLens
  /\ UNCHANGED <<funcName, registry, calc, runnerVars, walk>>

\* the user encloses the last two statements in one pair of braces (or moves
\* the last statement into the block that precedes it)
JoinLastTwo(maxStatements) ==
  /\ Len(tree.children) >= 2
  /\ LET n == Len(tree.children)
         first == tree.children[n - 1]
         last == tree.children[n]
         joined == IF first.type = "compound_statement"
                   THEN Block(Append(first.children, last))
                   ELSE Block(<<first, last>>)
     IN  /\ StatementCount(tree) - StatementCount(first) - StatementCount(last)
               + StatementCount(joined) <= maxStatements
         /\ tree' = Block(Append(SubSeq(tree.children, 1, n - 2), joined))
  /\ lens' = NoLens
  /\ UNCHANGED <<funcName, registry, calc, runnerVars, walk>>

\* provideCodeLenses with an analysis that adds the bubble-sort rule to the
\* static registry when it runs
ProvideCodeLensesRegistering ==
  /\ lens' = analyzeBlock(tree, funcName, RulesOf(registry))
  /\ registry' = "TwoRules"
  /\ UNCHANGED <<tree, funcName, calc, runnerVars, walk>>

\* provideCodeLenses, for the one function of the document
ProvideCodeLenses ==
  /\ lens' = analyzeBlock(tree, funcName, RulesOf(registry))
  /\ UNCHANGED <<tree, funcName, registry, calc, runnerVars, walk>>

(***************************************************************************)
(* Spec: functions made of loops, blocks and conditionals around plain     *)
(* statements (no calls).                                                  *)
(***************************************************************************)
MaxStatements == 6

PlainStatements == {SimpleStmt}

PlainWrappers == {"for", "while", "do", "block", "if", "else_clause", "switch"}

InitPlain ==
  /\ Init
  /\ funcName = <<"f">>

Next ==
  \/ \E stmt \in PlainStatements : AppendStatement(stmt, MaxStatements)
  \/ \E wrapper \in PlainWrappers : WrapLast(wrapper, MaxStatements)
  \/ JoinLastTwo(MaxStatements)
  \/ ProvideCodeLenses

Spec == InitPlain /\ [][Next]_vars

(***************************************************************************)
(* SpecNests: sibling loop nests, each loop with a braced body.            *)
(***************************************************************************)
MaxNestStatements == 15

NestWrappers == {"braced_for", "braced_while"}

NextNests ==
  \/ AppendStatement(SimpleStmt, MaxNestStatements)
  \/ \E wrapper \in NestWrappers : WrapLast(wrapper, MaxNestStatements)
  \/ ProvideCodeLenses

SpecNests == InitPlain /\ [][NextNests]_vars

(***************************************************************************)
(* SpecFingerprint: the shapes of the registry (a while-loop or a for-loop *)
(* around declarations, assignments and conditionals), without calls.      *)
(***************************************************************************)
MaxFingerprintStatements == 7

FingerprintStatements == {AssignStmt, DeclStmt, IfThen(SimpleStmt)}

FingerprintWrappers == {"while", "for"}

NextFingerprint ==
  \/ \E stmt \in FingerprintStatements : AppendStatement(stmt, MaxFingerprintStatements)
  \/ \E wrapper \in FingerprintWrappers : WrapLast(wrapper, MaxFingerprintStatements)
  \/ JoinLastTwo(MaxFingerprintStatements)
  \/ ProvideCodeLenses

SpecFingerprint == InitPlain /\ [][NextFingerprint]_vars

(***************************************************************************)
(* SpecShapes: the shapes of the two rules (binary search, bubble sort)    *)
(* and the loops around them.                                              *)
(***************************************************************************)
MaxShapeStatements == 7

ShapeStatements == {DeclStmt, IfThen(SimpleStmt)}

ShapeWrappers == {"while", "for", "braced_for"}

NextShapes ==
  \/ \E stmt \in ShapeStatements : AppendStatement(stmt, MaxShapeStatements)
  \/ \E wrapper \in ShapeWrappers : WrapLast(wrapper, MaxShapeStatements)
  \/ JoinLastTwo(MaxShapeStatements)
  \/ ProvideCodeLenses

SpecShapes == InitPlain /\ [][NextShapes]_vars

(***************************************************************************)
(* SpecClosure: functions f and g made of braced loops and blocks around   *)
(* declarations and conditional calls of f.                                *)
(***************************************************************************)
MaxClosureStatements == 7

ClosureStatements ==
  {DeclStmt, IfThen(CallStmt(<<"f">>, <<"(", "n", "/", "2", ")">>))}

ClosureWrappers == {"while", "braced_for"}

NextClosure ==
  \/ \E stmt \in ClosureStatements : AppendStatement(stmt, MaxClosureStatements)
  \/ \E wrapper \in ClosureWrappers : WrapLast(wrapper, MaxClosureStatements)
  \/ JoinLastTwo(MaxClosureStatements)
  \/ ProvideCodeLenses

SpecClosure == Init /\ [][NextClosure]_vars

(***************************************************************************)
(* SpecRecursiveSearch: functions f and g with a while-loop around a       *)
(* declaration or an assignment and a conditional call of f.               *)
(***************************************************************************)
MaxSearchStatements == 6

SearchStatements ==
  {AssignStmt, DeclStmt, IfThen(CallStmt(<<"f">>, <<"(", "n", "/", "2", ")">>))}

NextRecursiveSearch ==
  \/ \E stmt \in SearchStatements : AppendStatement(stmt, MaxSearchStatements)
  \/ WrapLast("while", MaxSearchStatements)
  \/ JoinLastTwo(MaxSearchStatements)
  \/ ProvideCodeLenses

SpecRecursiveSearch == Init /\ [][NextRecursiveSearch]_vars

(***************************************************************************)
(* SpecRecursion: functions f and g made of calls to f, g and obj.f.       *)
(***************************************************************************)
MaxRecursionStatements == 4

ArgumentTexts ==
  { <<"(", "n", "/", "2", ")">>,
    <<"(", "n", "-", "1", ">", ">", "1", ")">>,
    <<"(", "n", "-", "1", ")">>,
    <<"(", "-", "-", "n", ")">>,
    <<"(", "n", ")">> }

RecursionStatements ==
  {CallStmt(<<"f">>, args) : args \in ArgumentTexts}
    \cup {CallStmt(<<"g">>, <<"(", "n", "-", "1", ")">>),
          CallStmt(<<"o", "b", "j", ".", "f">>, <<"(", "n", "/", "2", ")">>),
          ReturnSumStmt(<<"f">>, <<"(", "n", "-", "1", ")">>, <<"(", "n", "-", "1", ")">>),
          IfThenElse(CallStmt(<<"f">>, <<"(", "n", "-", "1", ")">>),
                     CallStmt(<<"f">>, <<"(", "n", "/", "2", ")">>))}

RecursionWrappers == {"if", "for"}

NextRecursion ==
  \/ \E stmt \in RecursionStatements : AppendStatement(stmt, MaxRecursionStatements)
  \/ \E wrapper \in RecursionWrappers : WrapLast(wrapper, MaxRecursionStatements)
  \/ JoinLastTwo(MaxRecursionStatements)
  \/ ProvideCodeLenses

SpecRecursion == Init /\ [][NextRecursion]_vars

(***************************************************************************)
(* SpecCalls: function f made of loops, blocks and conditionals around     *)
(* calls of other functions: doWork(x), sort(v), lower_bound(v).           *)
(***************************************************************************)
MaxCallStatements == 5

DoWorkName == <<"d", "o", "W", "o", "r", "k">>

SortName == <<"s", "o", "r", "t">>

LowerBoundName == <<"l", "o", "w", "e", "r", "_", "b", "o", "u", "n", "d">>

CallStatements ==
  {SimpleStmt,
   CallStmt(DoWorkName, <<"(", "x", ")">>),
   CallStmt(SortName, <<"(", "v", ")">>),
   CallStmt(LowerBoundName, <<"(", "v", ")">>)}

CallWrappers == {"for", "braced_for", "if", "block"}

NextCalls ==
  \/ \E stmt \in CallStatements : AppendStatement(stmt, MaxCallStatements)
  \/ \E wrapper \in CallWrappers : WrapLast(wrapper, MaxCallStatements)
  \/ JoinLastTwo(MaxCallStatements)
  \/ ProvideCodeLenses

SpecCalls == InitPlain /\ [][NextCalls]_vars

(***************************************************************************)
(* SpecLoops: loops whose counter is scaled (i *= 2, i >>= 2) in the       *)
(* update clause of a for-loop or in the body of a while-loop.             *)
(***************************************************************************)
MaxLoopStatements == 5

LoopStatements ==
  {SimpleStmt, ScaleStmt(<<"*", "=">>), ScaleStmt(<<">", ">", "=">>)}

LoopWrappers == {"for", "for_scaled", "braced_for", "while", "braced_while"}

NextLoops ==
  \/ \E stmt \in LoopStatements : AppendStatement(stmt, MaxLoopStatements)
  \/ \E wrapper \in LoopWrappers : WrapLast(wrapper, MaxLoopStatements)
  \/ JoinLastTwo(MaxLoopStatements)
  \/ ProvideCodeLenses

SpecLoops == InitPlain /\ [][NextLoops]_vars

(***************************************************************************)
(* SpecAlgebra: compareComplexity and multiplyComplexity on pairs of the   *)
(* labels the analyzer produces.                                           *)
(***************************************************************************)
MaxPower == 5

CostLabels == {O1, OLogN, ON, ONLogN, O2N} \cup {ONPow(k) : k \in 2..MaxPower}

InitAlgebra ==
  /\ tree = Block(<<>>)
  /\ funcName = <<"f">>
  /\ registry = "OneRule"
  /\ lens = NoLens
  /\ \E a \in CostLabels, b \in CostLabels :
       calc = [NotComputed EXCEPT !.a = a, !.b = b]
  /\ RunnerIdle
  /\ walk = NoWalk

\* compareComplexity(a, b)
Compare ==
  /\ "cmp" \notin calc.done
  /\ calc' = [calc EXCEPT !.cmp = compareComplexity(calc.a, calc.b),
                          !.done = @ \cup {"cmp"}]
  /\ UNCHANGED <<tree, funcName, registry, lens, runnerVars, walk>>

\* multiplyComplexity(a, b)
Multiply ==
  /\ "product" \notin calc.done
  /\ calc' = [calc EXCEPT !.product = multiplyComplexity(calc.a, calc.b),
                          !.done = @ \cup {"product"}]
  /\ UNCHANGED <<tree, funcName, registry, lens, runnerVars, walk>>

\* compareComplexity(b, a)
CompareSwapped ==
  /\ "cmpBack" \notin calc.done
  /\ calc' = [calc EXCEPT !.cmpBack = compareComplexity(calc.b, calc.a),
                          !.done = @ \cup {"cmpBack"}]
  /\ UNCHANGED <<tree, funcName, registry, lens, runnerVars, walk>>

\* multiplyComplexity(b, a)
MultiplySwapped ==
  /\ "productBack" \notin calc.done
  /\ calc' = [calc EXCEPT !.productBack = multiplyComplexity(calc.b, calc.a),
                          !.done = @ \cup {"productBack"}]
  /\ UNCHANGED <<tree, funcName, registry, lens, runnerVars, walk>>

NextAlgebra == Compare \/ Multiply \/ CompareSwapped \/ MultiplySwapped

SpecAlgebra == InitAlgebra /\ [][NextAlgebra]_vars

(***************************************************************************)
(* What the claims speak of.                                               *)
(***************************************************************************)
\* a lens has been computed for the document as it stands
Analyzed == lens # NoLens

\* the cost a label denotes: exponential, polynomial degree, log factors
IsPowerLabel(label) == \E k \in 2..99 : label = ONPow(k)

Cost(label) ==
  IF label = O1 THEN [exp |-> FALSE, degree |-> 0, logs |-> 0]
  ELSE IF label = OLogN THEN [exp |-> FALSE, degree |-> 0, logs |-> 1]
  ELSE IF label = ON THEN [exp |-> FALSE, degree |-> 1, logs |-> 0]
  ELSE IF label = ONLogN THEN [exp |-> FALSE, degree |-> 1, logs |-> 1]
  ELSE IF label = O2N THEN [exp |-> TRUE, degree |-> 0, logs |-> 0]
  ELSE IF IsPowerLabel(label)
  THEN [exp |-> FALSE, degree |-> CHOOSE k \in 2..99 : label = ONPow(k), logs |-> 0]
  ELSE [exp |-> FALSE, degree |-> -1, logs |-> -1]

\* exponential > higher polynomial degree > more log factors
CostAbove(a, b) ==
  \/ a.exp /\ ~b.exp
  \/ ~a.exp /\ ~b.exp /\ a.degree > b.degree
  \/ ~a.exp /\ ~b.exp /\ a.degree = b.degree /\ a.logs > b.logs

CostAtLeast(a, b) == ~CostAbove(b, a)

\* the label of a polynomial degree
DegreeLabel(d) == IF d = 0 THEN O1 ELSE IF d = 1 THEN ON ELSE ONPow(d)

\* a call whose callee text is the name
CallsByName(node, name) ==
  node.type = "call_expression" /\ node.children[1].text = name

SelfCalls(node, name) ==
  LET all == Preorder(node)
  IN  {i \in 1..Len(all) : CallsByName(all[i], name)}

NoSelfCall == SelfCalls(tree, funcName) = {}

NoCall == \A i \in 1..Len(Preorder(tree)) : Preorder(tree)[i].type # "call_expression"

NoFingerprint == match(RulesOf(registry), getStructureSignature(tree)) = NoAlgo

LoopTypes == {"for_statement", "while_statement", "do_statement"}

LoopCount(node) ==
  LET all == Preorder(node)
  IN  Cardinality({i \in 1..Len(all) : all[i].type \in LoopTypes})

\* the only statement of a loop body: the body itself, or the one statement
\* inside its braces
OnlyStatement(body) ==
  IF body.type = "compound_statement" /\ Len(body.children) = 1
  THEN body.children[1]
  ELSE body

\* the body is one for-loop whose body is (or holds in braces) a second
\* for-loop with a loop-free body
NestedForPair ==
  /\ Len(tree.children) = 1
  /\ tree.children[1].type = "for_statement"
  /\ LET inner == OnlyStatement(BodyOf(tree.children[1]))
     IN  /\ inner.type = "for_statement"
         /\ LoopCount(BodyOf(inner)) = 0

\* C1 (as claimed): a for-loop whose body is a second for-loop with an O(1)
\* body, with or without braces around the inner loop, yields O(N^2) with the
\* reason "Loop (O(N)) wrapping: O(N)".
C1_NestedLoopsMultiply ==
  (Analyzed /\ NoSelfCall /\ NoFingerprint /\ NestedForPair)
    => lens = [complexity |-> ON2, reason |-> LoopWrappingPrefix \o ON]

(***************************************************************************)
(* C2: sibling loop nests.                                                 *)
(***************************************************************************)
\* the depth of a braced loop nest (0 for a statement that is no loop)
RECURSIVE NestDepth(_)
NestDepth(stmt) ==
  IF stmt.type \in LoopTypes
  THEN 1 + NestDepth(OnlyStatement(BodyOf(stmt)))
  ELSE 0

RECURSIVE IsBracedNest(_)
IsBracedNest(stmt) ==
  IF stmt.type \in LoopTypes
  THEN /\ BodyOf(stmt).type = "compound_statement"
       /\ Len(BodyOf(stmt).children) = 1
       /\ IsBracedNest(BodyOf(stmt).children[1])
  ELSE LoopCount(stmt) = 0

SiblingNests ==
  \A i \in 1..Len(tree.children) : IsBracedNest(tree.children[i])

DeepestNest ==
  LET depths == {NestDepth(tree.children[i]) : i \in 1..Len(tree.children)} \cup {0}
  IN  CHOOSE d \in depths : \A e \in depths : e <= d

\* C2 (as claimed): for sibling braced loop nests of depths d1..dn with O(1)
\* innermost bodies the result is O(N^max(di)), whatever the depths.
C2_WorstBranchWins ==
  (Analyzed /\ NoSelfCall /\ NoFingerprint /\ SiblingNests)
    => lens.complexity = DegreeLabel(DeepestNest)

(***************************************************************************)
(* C3, C6: fingerprints.                                                   *)
(***************************************************************************)
\* what analyzeBlock's walk computes for one child of the block
Contribution(child) ==
  IF child.type \in LoopTypes
  THEN multiplyComplexity(ON, analyzeBlock(BodyOf(child), funcName, RulesOf(registry)).complexity)
  ELSE analyzeBlock(child, funcName, RulesOf(registry)).complexity

\* C3 (as claimed): when the signature of the body matches a rule, the result
\* is at least the rule's cost and at least the contribution of every for-loop
\* and every block among the children of the body.
C3_FingerprintIsFloor ==
  (Analyzed /\ ~NoFingerprint)
    => /\ CostAtLeast(Cost(lens.complexity),
                      Cost(match(RulesOf(registry), getStructureSignature(tree)).complexity))
       /\ \A i \in 1..Len(tree.children) :
            tree.children[i].type \in {"for_statement", "compound_statement"}
              => CostAtLeast(Cost(lens.complexity), Cost(Contribution(tree.children[i])))

\* the body holds a while-loop whose braces hold a declaration or an
\* expression statement followed by an if-statement
BinarySearchShape ==
  \E i \in 1..Len(Preorder(tree)) :
    LET loop == Preorder(tree)[i]
    IN  /\ loop.type = "while_statement"
        /\ BodyOf(loop).type = "compound_statement"
        /\ \E j, k \in 1..Len(BodyOf(loop).children) :
             /\ j < k
             /\ BodyOf(loop).children[j].type \in {"declaration", "expression_statement"}
             /\ BodyOf(loop).children[k].type = "if_statement"

\* C6 (as claimed): a body without self-calls that holds the binary-search
\* shape yields O(log N) with a reason naming "Binary Search Logic".
C6_BinarySearchFingerprint ==
  (Analyzed /\ NoSelfCall /\ BinarySearchShape)
    => /\ lens.complexity = OLogN
       /\ Includes(lens.reason, BinarySearchName)

(***************************************************************************)
(* C4, C5, C8, C9: recursion.                                              *)
(***************************************************************************)
\* C4 (as claimed): a body with at least one self-call gets the recursion
\* classifier's label and a "Recursive calls detected" reason, also when its
\* signature matches a fingerprint.
C4_RecursionFirst ==
  (Analyzed /\ ~NoSelfCall)
    => /\ StartsWith(lens.reason, RecursiveDetectedPrefix)
       /\ Includes(lens.complexity, analyzeRecursion(tree, funcName))

TableLabel(args) ==
  IF Includes(args, <<"/">>) \/ Includes(args, <<">", ">">>) THEN OLogN ELSE ON

\* C8: with no self-call the classifier returns none; with exactly one it
\* returns O(log N) when the argument text holds '/' or '>>' (also beside a
\* '-'), and O(N) otherwise; analyzeBlock reports that label.
C8_RecursionTable ==
  Analyzed =>
    LET calls == SelfCalls(tree, funcName)
        label == analyzeRecursion(tree, funcName)
    IN  /\ calls = {} =>
             /\ label = NoRecursion
             /\ ~StartsWith(lens.reason, RecursiveDetectedPrefix)
        /\ Cardinality(calls) = 1 =>
             LET call == Preorder(tree)[CHOOSE i \in calls : TRUE]
             IN  /\ label = TableLabel(call.children[2].text)
                 /\ NoFingerprint =>
                      lens.reason = RecursiveDetectedPrefix \o label \o <<")">>

\* one self-call whose arguments hold both '-' and '>>', classified O(log N)
C8_Witness ==
  /\ Analyzed
  /\ Cardinality(SelfCalls(tree, funcName)) = 1
  /\ \E i \in SelfCalls(tree, funcName) :
       /\ Includes(Preorder(tree)[i].children[2].text, <<"-">>)
       /\ Includes(Preorder(tree)[i].children[2].text, <<">", ">">>)
  /\ lens.reason = RecursiveDetectedPrefix \o OLogN \o <<")">>

\* C9: when every callee text differs from the function's name, the
\* classifier returns none and the result comes from the fingerprint or the
\* compositional path.
C9_SelfRecursionOnly ==
  (Analyzed /\ NoSelfCall)
    => /\ analyzeRecursion(tree, funcName) = NoRecursion
       /\ ~StartsWith(lens.complexity, RecursivePrefix)
       /\ \/ StartsWith(lens.reason, ConstantTimeReason)
          \/ StartsWith(lens.reason, LoopWrappingPrefix)
          \/ StartsWith(lens.reason, MatchesPatternPrefix)

\* a body that calls obj.f and no f, analyzed as the body of f
C9_Witness ==
  /\ Analyzed
  /\ NoSelfCall
  /\ \E i \in 1..Len(Preorder(tree)) :
       /\ Preorder(tree)[i].type = "call_expression"
       /\ Preorder(tree)[i].children[1].text # funcName
       /\ Includes(Preorder(tree)[i].children[1].text, funcName)
  /\ lens.reason = ConstantTimeReason

(***************************************************************************)
(* C7: a single loop.                                                      *)
(***************************************************************************)
\* C7 (as claimed): a body without calls and without fingerprint match whose
\* only loop is one for-, while- or do-loop yields O(N).
C7_SingleLoop ==
  (Analyzed /\ NoCall /\ NoFingerprint /\ LoopCount(tree) = 1)
    => lens.complexity = ON

\* some loop is a child of the node, or of a block or a conditional that is
\* reached from the node through blocks and conditionals only
RECURSIVE LoopOnBlockPath(_)
LoopOnBlockPath(node) ==
  \E i \in 1..Len(node.children) :
    \/ node.children[i].type \in LoopTypes
    \/ /\ node.children[i].type \in {"compound_statement", "if_statement"}
       /\ LoopOnBlockPath(node.children[i])

\* C7 (restricted to where the code agrees): a body without calls and without fingerprint match whose
\* only loop is one for-, while- or do-loop yields O(N) when the loop is a
\* child of the body or of a block or if-statement reached from the body
\* through blocks and if-statements only.
C7_SingleLoopOnBlockPath ==
  (Analyzed /\ NoCall /\ NoFingerprint /\ LoopCount(tree) = 1 /\ LoopOnBlockPath(tree))
    => lens.complexity = ON

\* a do-loop inside a conditional, analyzed
C7_Witness ==
  /\ Analyzed
  /\ NoCall
  /\ NoFingerprint
  /\ LoopCount(tree) = 1
  /\ Len(tree.children) = 1
  /\ tree.children[1].type = "if_statement"
  /\ tree.children[1].children[2].type = "do_statement"
  /\ lens.complexity = ON

(***************************************************************************)
(* C10: the order of compareComplexity.                                    *)
(***************************************************************************)
\* C10 (as claimed): compareComplexity(a, b) is positive exactly when a
\* denotes the higher cost, and 0 exactly when a and b denote the same cost.
C10_CompareIsCostOrder ==
  ("cmp" \in calc.done)
    => /\ (calc.cmp > 0) <=> CostAbove(Cost(calc.a), Cost(calc.b))
       /\ (calc.cmp = 0) <=> (Cost(calc.a) = Cost(calc.b))

(***************************************************************************)
(* C11: compareComplexity is antisymmetric and reflexive.                  *)
(***************************************************************************)
\* C11: compareComplexity(a, b) = -compareComplexity(b, a) for every pair of
\* labels, and compareComplexity(a, a) = 0.
C11_CompareAntisymmetric ==
  /\ {"cmp", "cmpBack"} \subseteq calc.done => calc.cmp = 0 - calc.cmpBack
  /\ ("cmp" \in calc.done /\ calc.a = calc.b) => calc.cmp = 0
  /\ ("cmpBack" \in calc.done /\ calc.a = calc.b) => calc.cmpBack = 0

\* two labels of different scores compared in both orders
C11_Witness ==
  /\ {"cmp", "cmpBack"} \subseteq calc.done
  /\ calc.a = ONLogN
  /\ calc.b = ON2
  /\ calc.cmp < 0
  /\ calc.cmpBack > 0

(***************************************************************************)
(* C12: O(1) is the identity of multiplyComplexity.                        *)
(***************************************************************************)
\* C12: multiplyComplexity(a, "O(1)") = a and multiplyComplexity("O(1)", a)
\* = a for every label a.
C12_MultiplyIdentity ==
  /\ ("product" \in calc.done /\ calc.b = O1) => calc.product = calc.a
  /\ ("product" \in calc.done /\ calc.a = O1) => calc.product = calc.b
  /\ ("productBack" \in calc.done /\ calc.b = O1) => calc.productBack = calc.a
  /\ ("productBack" \in calc.done /\ calc.a = O1) => calc.productBack = calc.b

\* O(1) times O(N log N), in both orders
C12_Witness ==
  /\ {"product", "productBack"} \subseteq calc.done
  /\ calc.a = O1
  /\ calc.b = ONLogN
  /\ calc.product = ONLogN
  /\ calc.productBack = ONLogN

(***************************************************************************)
(* C13: multiplyComplexity on non-exponential operands.                    *)
(***************************************************************************)
\* the polynomial degree a label text denotes: the sum of the exponents of
\* its factors N and N^k (the N of "log N" and of "2^N" is no factor)
RECURSIVE DegreeFrom(_, _)
DegreeFrom(text, i) ==
  IF i > Len(text) THEN 0
  ELSE IF text[i] # "N" THEN DegreeFrom(text, i + 1)
  ELSE IF i >= 5 /\ SubSeq(text, i - 4, i) = <<"l", "o", "g", " ", "N">>
  THEN DegreeFrom(text, i + 1)
  ELSE IF i >= 3 /\ SubSeq(text, i - 2, i) = <<"2", "^", "N">>
  THEN DegreeFrom(text, i + 1)
  ELSE IF i < Len(text) /\ text[i + 1] = "^"
  THEN parseInt(SubSeq(text, i + 2, Len(text))) + DegreeFrom(text, i + 1)
  ELSE 1 + DegreeFrom(text, i + 1)

\* the cost a label text denotes, read factor by factor
LabelCost(label) ==
  [exp |-> Includes(label, <<"2", "^", "N">>),
   degree |-> DegreeFrom(label, 1),
   logs |-> Cardinality({i \in 1..Len(label) :
                           /\ i + 4 <= Len(label)
                           /\ SubSeq(label, i, i + 4) = <<"l", "o", "g", " ", "N">>})]

\* C13 (as claimed): for non-exponential a and b, multiplyComplexity(a, b)
\* and multiplyComplexity(b, a) denote the same cost, whose degree is the sum
\* of the degrees and whose log factors are the sum of the log factors.
C13_MultiplyCommutes ==
  ({"product", "productBack"} \subseteq calc.done
     /\ ~LabelCost(calc.a).exp /\ ~LabelCost(calc.b).exp)
    => /\ LabelCost(calc.product) = LabelCost(calc.productBack)
       /\ LabelCost(calc.product).degree
            = LabelCost(calc.a).degree + LabelCost(calc.b).degree
       /\ LabelCost(calc.product).logs
            = LabelCost(calc.a).logs + LabelCost(calc.b).logs

(***************************************************************************)
(* C14, C15, C16: calls of other functions.                                *)
(***************************************************************************)
\* the callee texts of the calls in a subtree
CalleesOf(node) ==
  {Preorder(node)[i].children[1].text :
     i \in {j \in 1..Len(Preorder(node)) : Preorder(node)[j].type = "call_expression"}}

\* the standard-library calls with a known cost
SortFamily == {SortName}

SearchFamily == {LowerBoundName}

\* the callees that are neither the analyzed function nor a known library call
UnknownCallees(node) == CalleesOf(node) \ (SortFamily \cup SearchFamily \cup {funcName})

\* the result carries the uncertainty marker
EstimateMarked(result) == Includes(result.complexity, <<"?">>)

\* the body is one loop, with no loop inside it
OneLoopBody ==
  /\ Len(tree.children) = 1
  /\ tree.children[1].type \in LoopTypes
  /\ LoopCount(tree) = 1

\* C14 (as claimed): a loop whose body calls an unknown function (and no
\* library function) yields O(N) with the uncertainty marker and a reason
\* that names the unresolved callee.
C14_UnknownCallEstimate ==
  (Analyzed /\ NoSelfCall /\ NoFingerprint /\ OneLoopBody
     /\ UnknownCallees(tree) # {} /\ CalleesOf(tree) = UnknownCallees(tree))
    => /\ StartsWith(lens.complexity, ON)
       /\ EstimateMarked(lens)
       /\ \E callee \in UnknownCallees(tree) : Includes(lens.reason, callee)

\* C15 (as claimed): a call of an unknown function anywhere in the body
\* marks the result as an estimate, whichever child determines the
\* complexity.
C15_EstimateSticky ==
  (Analyzed /\ UnknownCallees(tree) # {}) => EstimateMarked(lens)

\* the body holds plain statements and exactly one statement that is a call
\* of the callee
OnlyCallOf(node, callee) ==
  /\ CalleesOf(node) = {callee}
  /\ Cardinality({i \in 1..Len(Preorder(node)) :
                    Preorder(node)[i].type = "call_expression"}) = 1

\* C16 (as claimed): a loop-free body whose one call is a sort yields
\* O(N log N), one whose one call is lower_bound yields O(log N), and one loop
\* around such a call yields a cost above O(N).
C16_LibraryCallCost ==
  (Analyzed /\ NoFingerprint)
    => /\ (LoopCount(tree) = 0 /\ \E c \in SortFamily : OnlyCallOf(tree, c))
            => lens.complexity = ONLogN
       /\ (LoopCount(tree) = 0 /\ \E c \in SearchFamily : OnlyCallOf(tree, c))
            => lens.complexity = OLogN
       /\ (OneLoopBody /\ \E c \in SortFamily \cup SearchFamily : OnlyCallOf(tree, c))
            => CostAbove(LabelCost(lens.complexity), LabelCost(ON))

(***************************************************************************)
(* C17: the cost of a loop.                                                *)
(***************************************************************************)
ScalingOperators ==
  {<<"*", "=">>, <<"/", "=">>, <<">", ">", "=">>, <<"<", "<", "=">>}

\* the source text of the node holds a scaling operator (the text of a node
\* holds the text of every node below it)
HoldsScaling(node) ==
  \E i \in 1..Len(Preorder(node)) :
    \E op \in ScalingOperators : Includes(Preorder(node)[i].text, op)

\* a for-loop whose update clause, or a while-loop whose body, scales
LogarithmicLoop(loop) ==
  \/ loop.type = "for_statement" /\ HoldsScaling(loop.children[3])
  \/ loop.type = "while_statement" /\ HoldsScaling(BodyOf(loop))

\* C17 (as claimed): with no fingerprint match, a single loop with a
\* loop-free body yields O(log N) when it scales its counter, and a plain
\* for-loop around such a loop yields O(N log N).
C17_LoopCost ==
  (Analyzed /\ NoFingerprint /\ NoCall /\ Len(tree.children) = 1
     /\ tree.children[1].type \in LoopTypes)
    => LET loop == tree.children[1]
           inner == OnlyStatement(BodyOf(loop))
       IN  /\ (LoopCount(tree) = 1 /\ LogarithmicLoop(loop))
                => lens.complexity = OLogN
           /\ (LoopCount(tree) = 2 /\ loop.type = "for_statement"
                  /\ ~LogarithmicLoop(loop)
                  /\ inner.type \in LoopTypes /\ LogarithmicLoop(inner))
                => lens.complexity = ONLogN

(***************************************************************************)
(* C18: the signature depends on the structure only.                       *)
(***************************************************************************)
\* the subtree with the text of every identifier and every number literal
\* replaced: same shape, same node type at every position
RECURSIVE WithTexts(_, _)
WithTexts(node, text) ==
  [type |-> node.type,
   text |-> IF node.type \in {"identifier", "number_literal"} THEN text ELSE node.text,
   children |-> [i \in 1..Len(node.children) |-> WithTexts(node.children[i], text)],
   body |-> node.body]

OtherTexts == {<<"g">>, <<"h", "2">>, <<"4", "2">>}

\* C18: the body and every renaming of its identifiers and literals have
\* the same signature, hence the same registry match, and a body that
\* matches a rule gets the same lens as its renamings.
C18_SignatureStructural ==
  \A text \in OtherTexts :
    LET other == WithTexts(tree, text)
    IN  /\ getStructureSignature(other) = getStructureSignature(tree)
        /\ match(RulesOf(registry), getStructureSignature(other))
             = match(RulesOf(registry), getStructureSignature(tree))
        /\ (Analyzed /\ ~NoFingerprint)
             => analyzeBlock(other, funcName, RulesOf(registry)) = lens

\* a body that calls f and matches the binary-search rule, analyzed; its
\* renaming calls g instead
C18_Witness ==
  /\ Analyzed
  /\ ~NoFingerprint
  /\ <<"f">> \in CalleesOf(tree)
  /\ <<"g">> \in CalleesOf(WithTexts(tree, <<"g">>))
  /\ WithTexts(tree, <<"g">>) # tree
  /\ lens.reason = MatchesPatternPrefix \o BinarySearchName

NoAnalyzedChild ==
  \A i \in 1..Len(tree.children) :
    tree.children[i].type \notin LoopTypes \cup {"compound_statement", "if_statement"}

\* C20 (as claimed): a body with no children, or with only children that are
\* not loops, compound statements or if-statements, yields O(1) with the
\* reason "Constant time operations".
C20_EmptyBody ==
  (Analyzed /\ NoAnalyzedChild)
    => lens = [complexity |-> O1, reason |-> ConstantTimeReason]

\* C20 (amended): such a body yields O(1) with the reason "Constant time
\* operations" when it holds no self-call and matches no fingerprint.
C20_EmptyBodyNoSelfCall ==
  (Analyzed /\ NoAnalyzedChild /\ NoSelfCall /\ NoFingerprint)
    => lens = [complexity |-> O1, reason |-> ConstantTimeReason]

\* a body of two or more statements that call other functions, analyzed
C20_Witness ==
  /\ Analyzed
  /\ NoAnalyzedChild
  /\ NoSelfCall
  /\ NoFingerprint
  /\ Len(tree.children) >= 2
  /\ CalleesOf(tree) # {}
  /\ lens = [complexity |-> O1, reason |-> ConstantTimeReason]

(***************************************************************************)
(* C22: the arms of a conditional.                                         *)
(***************************************************************************)
\* the statements in the arms of an if-statement: the consequence, and the
\* alternative (inside its else_clause node when the grammar has one)
ArmsOf(conditional) ==
  {conditional.children[2]}
    \cup (IF Len(conditional.children) < 3 THEN {}
          ELSE IF conditional.children[3].type = "else_clause"
          THEN {conditional.children[3].children[1]}
          ELSE {conditional.children[3]})

\* the cost of an arm: what the analysis yields for a body made of it
ArmCost(arm) == analyzeBlock(Block(<<arm>>), funcName, RulesOf(registry)).complexity

\* C22 (as claimed): a body without calls and without fingerprint match that
\* is one if-statement yields the worst cost among its arms, also when the
\* else arm stands under an else_clause node.
C22_BothArmsCount ==
  (Analyzed /\ NoCall /\ NoFingerprint /\ Len(tree.children) = 1
     /\ tree.children[1].type = "if_statement")
    => /\ \A arm \in ArmsOf(tree.children[1]) :
            CostAtLeast(LabelCost(lens.complexity), LabelCost(ArmCost(arm)))
       /\ \E arm \in ArmsOf(tree.children[1]) : lens.complexity = ArmCost(arm)

(***************************************************************************)
(* C23: a fingerprint anywhere in the body.                                *)
(***************************************************************************)
\* the rules of the registry that the signature of the node tests true
RulesMatching(node) ==
  {k \in 1..Len(RulesOf(registry)) :
     RegexTest(RulesOf(registry)[k].regex, getStructureSignature(node))}

\* some rule matches some node of the body
ShapeOccurs == \E i \in 1..Len(Preorder(tree)) : RulesMatching(Preorder(tree)[i]) # {}

RECURSIVE AllNestedCalls(_)
AllNestedCalls(node) ==
  {node} \cup UNION {AllNestedCalls(b) : b \in NestedBlocks(node)}

PolynomialLabel(label) == label \in {O1, ON} \/ IsPowerLabel(label)

\* multiplyComplexity(outer, inner) reaches its last, concatenating return
Concatenates(outer, inner) ==
  /\ inner # O1
  /\ outer # O1
  /\ ~StartsWith(StripO(inner, 1), <<"N", "^">>)
  /\ StripO(inner, 1) # <<"N">>

RECURSIVE CallCountBelow(_, _)
RECURSIVE CallCountOfChildren(_, _, _)
CallCountBelow(node, name) ==
  (IF CallsByName(node, name) THEN 1 ELSE 0)
    + CallCountOfChildren(node.children, 1, name)

CallCountOfChildren(children, i, name) ==
  IF i > Len(children) THEN 0
  ELSE CallCountBelow(children[i], name) + CallCountOfChildren(children, i + 1, name)

\* the depths (below the body) at which the body holds a call of the name
RECURSIVE CallDepths(_, _, _)
CallDepths(node, name, depth) ==
  (IF CallsByName(node, name) THEN {depth} ELSE {})
    \cup UNION {CallDepths(node.children[i], name, depth + 1) : i \in 1..Len(node.children)}

\* C25: the classifier counts the self-calls at every depth of the body,
\* and two or more of them, at one depth or at different depths or one in
\* each arm of a conditional, make the body O(2^N).
C25_SelfCallsAtAnyDepth ==
  Analyzed =>
    /\ traverseCalls(tree, funcName).callCount = CallCountBelow(tree, funcName)
    /\ CallCountBelow(tree, funcName) >= 2
         => /\ analyzeRecursion(tree, funcName) = O2N
            /\ NoFingerprint
                 => lens.reason = RecursiveDetectedPrefix \o O2N \o <<")">>

\* one self-call in each arm of an if/else, the two at different depths,
\* analyzed as O(2^N)
C25_Witness ==
  /\ Analyzed
  /\ NoFingerprint
  /\ CallCountBelow(tree, funcName) = 2
  /\ Cardinality(CallDepths(tree, funcName, 0)) = 2
  /\ \E i \in 1..Len(Preorder(tree)) :
       LET node == Preorder(tree)[i]
       IN  /\ node.type = "if_statement"
           /\ Len(node.children) = 3
           /\ CallCountBelow(node.children[2], funcName) = 1
           /\ CallCountBelow(node.children[3], funcName) = 1
  /\ lens.reason = RecursiveDetectedPrefix \o O2N \o <<")">>

(***************************************************************************)
(* The sidebar test runner (SidebarProvider.ts, the version with the       *)
(* interactive mode).  A text is a sequence of characters; the output of a *)
(* child process, its stderr text and its exit code are inputs of the      *)
(* runner.  Status texts shown on the Run button and the chat lines of the *)
(* interactive panel change no decision of the runner and are left out.    *)
(***************************************************************************)
RECURSIVE trimStart(_)
\* String.prototype.trim, the leading part
trimStart(s) ==
  IF s # <<>> /\ Head(s) \in {" ", "\n"} THEN trimStart(Tail(s)) ELSE s

RECURSIVE trimEnd(_)
\* String.prototype.trim, the trailing part
trimEnd(s) ==
  IF s # <<>> /\ s[Len(s)] \in {" ", "\n"}
  THEN trimEnd(SubSeq(s, 1, Len(s) - 1))
  ELSE s

trim(s) == trimEnd(trimStart(s))

\* the exit code of a child that was killed by a signal, and the code field
\* of a timed out result (null in the source)
ExitNull == -1

\* finalOutput of runTests: the output, then the stderr block when there is
\* any error text
finalOutput(result) ==
  IF result.error # <<>>
  THEN result.output
         \o <<"\n", "[", "S", "t", "d", "e", "r", "r", "]", ":", "\n">>
         \o result.error
  ELSE result.output

\* passed of runTests: an empty expected text never passes
passed(result, expected) ==
  IF expected # <<>>
  THEN trim(finalOutput(result)) = trim(expected)
  ELSE FALSE

\* statusText with the exit code looked at before the timeout flag
statusTextExitCodeFirst(result, expected) ==
  IF result.code # 0 THEN "RE"
  ELSE IF result.isTimeout THEN "TLE"
  ELSE IF passed(result, expected) THEN "AC" ELSE "WA"

\* statusText of the 'test-result' message
statusText(result, expected) ==
  IF result.isTimeout THEN "TLE"
  ELSE IF result.code # 0 THEN "RE"
  ELSE IF passed(result, expected) THEN "AC" ELSE "WA"

\* the 'test-result' message runTests posts for one resolved runBinary
TestResult(case, result) ==
  [type |-> "test-result",
   id |-> case.id,
   output |-> finalOutput(result),
   passed |-> passed(result, case.expected),
   isError |-> (result.code # 0 \/ result.isTimeout),
   statusText |-> statusText(result, case.expected)]

NoMessage == [type |-> "none"]

\* the state of the complexity lenses, which the runner never touches
analysisVars == <<tree, funcName, registry, lens, calc, walk>>

\* one activation of runTests
Run(pc, testCases) ==
  [pc |-> pc, testCases |-> testCases, i |-> 0,
   result |-> [output |-> <<>>, error |-> <<>>, code |-> 0,
               isTimeout |-> FALSE],
   message |-> NoMessage]

\* the 'run' commands sent so far: the ones handled, the ones on their way
RunCommands ==
  Len(runs) + Cardinality({k \in 1..Len(commands) :
                             commands[k].command = "run"})

\* the 'run-interactive' commands sent so far
InteractiveCommands ==
  Len(sessions) + Cardinality({k \in 1..Len(commands) :
                                 commands[k].command = "run-interactive"})

\* webview, addTestCase: a card with its expected text, nothing shown yet
addTestCase(expected, maxCases) ==
  /\ Len(webview.cases) < maxCases
  /\ webview' = [webview EXCEPT !.cases =
       Append(@, [expected |-> expected, statusTag |-> "",
                  class |-> "", collapsed |-> FALSE])]
  /\ UNCHANGED <<editor, exe, commands, runs, sessions,
                 currentInteractiveProcess, outbox, analysisVars>>

\* collectCases of the webview
collectCases ==
  [k \in 1..Len(webview.cases) |->
     [id |-> k, expected |-> webview.cases[k].expected]]

\* webview, the Run All button: runTests and sendRunCommand
sendRunCommand(maxRuns) ==
  /\ ~webview.runBtnDisabled
  /\ Len(collectCases) > 0
  /\ RunCommands < maxRuns
  /\ webview' = [webview EXCEPT !.runBtnDisabled = TRUE]
  /\ commands' = Append(commands, [command |-> "run", testCases |-> collectCases])
  /\ UNCHANGED <<editor, exe, runs, sessions, currentInteractiveProcess,
                 outbox, analysisVars>>

\* webview, the run button of one card: resetCaseUI, then the command; the
\* Run All button is left as it is
runSingleCase(id, maxRuns) ==
  /\ id \in 1..Len(webview.cases)
  /\ RunCommands < maxRuns
  /\ webview' = [webview EXCEPT !.cases[id] =
       [@ EXCEPT !.statusTag = "", !.class = "", !.collapsed = FALSE]]
  /\ commands' = Append(commands,
       [command |-> "run",
        testCases |-> <<[id |-> id, expected |-> webview.cases[id].expected]>>])
  /\ UNCHANGED <<editor, exe, runs, sessions, currentInteractiveProcess,
                 outbox, analysisVars>>

\* webview, startInteractive: the start button gives way to the stop button
startInteractive(maxSessions) ==
  /\ ~webview.interactiveStartHidden
  /\ InteractiveCommands < maxSessions
  /\ webview' = [webview EXCEPT !.interactiveStartHidden = TRUE]
  /\ commands' = Append(commands, [command |-> "run-interactive", testCases |-> <<>>])
  /\ UNCHANGED <<editor, exe, runs, sessions, currentInteractiveProcess,
                 outbox, analysisVars>>

\* webview, stopInteractive: the command, then setInteractiveStoppedState
stopInteractive ==
  /\ webview.interactiveStartHidden
  /\ webview' = [webview EXCEPT !.interactiveStartHidden = FALSE]
  /\ commands' = Append(commands, [command |-> "stop-interactive", testCases |-> <<>>])
  /\ UNCHANGED <<editor, exe, runs, sessions, currentInteractiveProcess,
                 outbox, analysisVars>>

\* the user closes the source file, or opens one
ChangeActiveEditor ==
  /\ editor' = ~editor
  /\ UNCHANGED <<exe, commands, runs, sessions, currentInteractiveProcess,
                 outbox, webview, analysisVars>>

\* onDidReceiveMessage, case "run": runTests up to the call of cp.exec.  With
\* no active editor it shows an error notification and returns, posting
\* nothing to the webview.
runTests ==
  /\ commands # <<>>
  /\ Head(commands).command = "run"
  /\ commands' = Tail(commands)
  /\ runs' = Append(runs,
       Run(IF editor THEN "compiling" ELSE "returned",
           Head(commands).testCases))
  /\ UNCHANGED <<editor, exe, sessions, currentInteractiveProcess, outbox,
                 webview, analysisVars>>

\* the callback of cp.exec in runTests: a failed compilation posts
\* 'compile-error'; a successful one has written the executable, and the
\* loop spawns the child of the first test case
compileCallback(r, error) ==
  /\ r \in 1..Len(runs)
  /\ runs[r].pc = "compiling"
  /\ IF error
     THEN /\ outbox' = Append(outbox, [type |-> "compile-error"])
          /\ runs' = [runs EXCEPT ![r].pc = "returned"]
          /\ exe' = exe
     ELSE /\ outbox' = outbox
          /\ runs' = [runs EXCEPT ![r].pc = "running", ![r].i = 1]
          /\ exe' = TRUE
  /\ UNCHANGED <<editor, commands, sessions, currentInteractiveProcess,
                 webview, analysisVars>>

\* runTests after runBinary resolved for test case i: the 'test-result'
\* message, then either the child of the next test case or 'finished' and
\* the removal of the executable
continueRun(r, result) ==
  LET run == runs[r]
      message == TestResult(run.testCases[run.i], result)
  IN  /\ IF run.i < Len(run.testCases)
         THEN /\ outbox' = Append(outbox, message)
              /\ runs' = [runs EXCEPT ![r].i = run.i + 1,
                                      ![r].result = result,
                                      ![r].message = message]
              /\ exe' = exe
         ELSE /\ outbox' = outbox \o <<message, [type |-> "finished"]>>
              /\ runs' = [runs EXCEPT ![r].pc = "returned",
                                      ![r].result = result,
                                      ![r].message = message]
              /\ exe' = FALSE
      /\ UNCHANGED <<editor, commands, sessions, currentInteractiveProcess,
                     webview, analysisVars>>

\* runBinary, the 'close' event of the child before the timer
childClose(r, output, error, code) ==
  /\ r \in 1..Len(runs)
  /\ runs[r].pc = "running"
  /\ continueRun(r, [output |-> output, error |-> error, code |-> code,
                     isTimeout |-> FALSE])

\* runBinary, the 2000 ms timer before the 'close' event: the child is
\* killed and the result carries what it wrote so far
timerFires(r, output, error) ==
  /\ r \in 1..Len(runs)
  /\ runs[r].pc = "running"
  /\ continueRun(r, [output |-> output, error |-> error, code |-> ExitNull,
                     isTimeout |-> TRUE])

\* onDidReceiveMessage, case "run-interactive": runInteractive up to the call
\* of cp.exec.  With no active editor it posts 'interactive-stopped'.
runInteractive ==
  /\ commands # <<>>
  /\ Head(commands).command = "run-interactive"
  /\ commands' = Tail(commands)
  /\ IF editor
     THEN /\ sessions' = Append(sessions, "compiling")
          /\ outbox' = outbox
     ELSE /\ sessions' = Append(sessions, "failed")
          /\ outbox' = Append(outbox, [type |-> "interactive-stopped"])
  /\ UNCHANGED <<editor, exe, runs, currentInteractiveProcess, webview,
                 analysisVars>>

\* the processes of sessions after currentInteractiveProcess.kill()
killCurrent(ss) ==
  IF currentInteractiveProcess # NoProcess
     /\ ss[currentInteractiveProcess] = "running"
  THEN [ss EXCEPT ![currentInteractiveProcess] = "killed"]
  ELSE ss

\* the callback of cp.exec in runInteractive: a failed compilation posts
\* 'interactive-stopped'; a successful one kills the process the handle
\* refers to, spawns the new process and stores it in the handle
interactiveCompileCallback(p, error) ==
  /\ p \in 1..Len(sessions)
  /\ sessions[p] = "compiling"
  /\ IF error
     THEN /\ outbox' = Append(outbox, [type |-> "interactive-stopped"])
          /\ sessions' = [sessions EXCEPT ![p] = "failed"]
          /\ UNCHANGED <<exe, currentInteractiveProcess>>
     ELSE /\ outbox' = outbox
          /\ sessions' = [killCurrent(sessions) EXCEPT ![p] = "running"]
          /\ currentInteractiveProcess' = p
          /\ exe' = TRUE
  /\ UNCHANGED <<editor, commands, runs, webview, analysisVars>>

\* onDidReceiveMessage, case "stop-interactive"
stopInteractiveProcess ==
  /\ commands # <<>>
  /\ Head(commands).command = "stop-interactive"
  /\ commands' = Tail(commands)
  /\ sessions' = killCurrent(sessions)
  /\ currentInteractiveProcess' = NoProcess
  /\ UNCHANGED <<editor, exe, runs, outbox, webview, analysisVars>>

\* the 'close' listener of an interactive process, whether the process
\* exited by itself or was killed: 'interactive-exit', the handle is
\* cleared and the executable removed
interactiveClose(p) ==
  /\ p \in 1..Len(sessions)
  /\ sessions[p] \in {"running", "killed"}
  /\ outbox' = Append(outbox, [type |-> "interactive-exit"])
  /\ sessions' = [sessions EXCEPT ![p] = "closed"]
  /\ currentInteractiveProcess' = NoProcess
  /\ exe' = FALSE
  /\ UNCHANGED <<editor, commands, runs, webview, analysisVars>>

\* the message listener of the webview
webviewMessage ==
  /\ outbox # <<>>
  /\ outbox' = Tail(outbox)
  /\ LET msg == Head(outbox)
     IN  webview' =
           CASE msg.type \in {"finished", "compile-error"} ->
                  [webview EXCEPT !.runBtnDisabled = FALSE]
             [] msg.type = "test-result" ->
                  [webview EXCEPT !.cases[msg.id] =
                     [@ EXCEPT !.statusTag = msg.statusText,
                               !.class = IF msg.passed THEN "AC" ELSE "WA",
                               !.collapsed = msg.passed]]
             [] msg.type \in {"interactive-exit", "interactive-stopped"} ->
                  [webview EXCEPT !.interactiveStartHidden = FALSE]
  /\ UNCHANGED <<editor, exe, commands, runs, sessions,
                 currentInteractiveProcess, analysisVars>>

\* the sidebar is opened next to an empty function
InitRunner ==
  /\ InitPlain
  /\ registry = "OneRule"

(***************************************************************************)
(* Verdicts: test cases with several expected texts, children with several *)
(* outputs, error texts and exit codes, runs of the whole list and of      *)
(* single cases.                                                           *)
(***************************************************************************)
MaxCases == 1
MaxVerdictRuns == 1

ExpectedTexts == {<<>>, <<"1">>}
Outputs == {<<"1", "\n">>, <<"2">>}
ErrorTexts == {<<>>, <<"e">>}
ExitCodes == {0, 1}

NextVerdicts ==
  \/ \E expected \in ExpectedTexts : addTestCase(expected, MaxCases)
  \/ sendRunCommand(MaxVerdictRuns)
  \/ \E id \in 1..MaxCases : runSingleCase(id, MaxVerdictRuns)
  \/ ChangeActiveEditor
  \/ runTests
  \/ \E r \in 1..MaxVerdictRuns, error \in BOOLEAN : compileCallback(r, error)
  \/ \E r \in 1..MaxVerdictRuns, output \in Outputs, error \in ErrorTexts,
        code \in ExitCodes : childClose(r, output, error, code)
  \/ \E r \in 1..MaxVerdictRuns, output \in Outputs, error \in ErrorTexts :
        timerFires(r, output, error)
  \/ webviewMessage

SpecVerdicts == InitRunner /\ [][NextVerdicts]_vars

\* the test case a run reported last, once it has reported one
ReportedCase(run) ==
  run.testCases[IF run.pc = "running" THEN run.i - 1 ELSE run.i]

Reported == {r \in 1..Len(runs) : runs[r].message # NoMessage}

\* the verdict by priority: the timer, then the exit code, then the texts
VerdictByPriority(result, output, expected) ==
  IF result.isTimeout THEN "TLE"
  ELSE IF result.code # 0 THEN "RE"
  ELSE IF expected # <<>> /\ trim(output) = trim(expected) THEN "AC"
  ELSE "WA"

\* C21: every executed test case is reported with one verdict among TLE,
\* RE, AC and WA, for its own id: TLE when the timer fired before the child
\* closed, otherwise RE when the exit code is not 0, otherwise AC when the
\* expected text is not empty and the trimmed reported output equals the
\* trimmed expected text, otherwise WA.
C21_VerdictPriority ==
  \A r \in Reported :
    LET run == runs[r]
        case == ReportedCase(run)
    IN  /\ run.message.type = "test-result"
        /\ run.message.id = case.id
        /\ run.message.statusText \in {"TLE", "RE", "AC", "WA"}
        /\ run.message.statusText =
             VerdictByPriority(run.result, run.message.output, case.expected)

\* a timed out case whose output equals the expected text is reported TLE
C21_Witness ==
  \E r \in Reported :
    /\ runs[r].result.isTimeout
    /\ runs[r].result.error = <<>>
    /\ ReportedCase(runs[r]).expected # <<>>
    /\ trim(runs[r].result.output) = trim(ReportedCase(runs[r]).expected)
    /\ runs[r].message.statusText = "TLE"

TestResults ==
  {outbox[k] : k \in {j \in 1..Len(outbox) : outbox[j].type = "test-result"}}

\* C29: in every 'test-result' message passed is true only if statusText
\* is AC, and no test case card carries the AC class and the collapse under
\* another verdict.
C29_PassedOnlyWhenAC ==
  /\ \A msg \in TestResults : msg.passed => msg.statusText = "AC"
  /\ \A id \in 1..Len(webview.cases) :
       webview.cases[id].class = "AC" => webview.cases[id].statusTag = "AC"

(***************************************************************************)
(* Sessions: runs of the test cases and interactive sessions on the same   *)
(* source file, under every interleaving of the commands of the webview,   *)
(* the callbacks of the compiler and the events of the child processes.    *)
(* One expected text and one outcome of a child are enough here.           *)
(***************************************************************************)
MaxSessionRuns == 2
MaxSessions == 2

NextSessions ==
  \/ addTestCase(<<"1">>, MaxCases)
  \/ sendRunCommand(MaxSessionRuns)
  \/ \E id \in 1..MaxCases : runSingleCase(id, MaxSessionRuns)
  \/ startInteractive(MaxSessions)
  \/ stopInteractive
  \/ ChangeActiveEditor
  \/ runTests
  \/ \E r \in 1..MaxSessionRuns, error \in BOOLEAN : compileCallback(r, error)
  \/ \E r \in 1..MaxSessionRuns : childClose(r, <<"2">>, <<>>, 0)
  \/ \E r \in 1..MaxSessionRuns : timerFires(r, <<"2">>, <<>>)
  \/ runInteractive
  \/ \E p \in 1..MaxSessions, error \in BOOLEAN :
        interactiveCompileCallback(p, error)
  \/ stopInteractiveProcess
  \/ \E p \in 1..MaxSessions : interactiveClose(p)
  \/ webviewMessage

SpecSessions == InitRunner /\ [][NextSessions]_vars

\* the interactive processes that were spawned and neither killed nor closed
LiveProcesses == {p \in 1..Len(sessions) : sessions[p] = "running"}

\* C26: in every reachable state, an interactive process that was spawned
\* and is still running is the one currentInteractiveProcess refers to, so
\* that a later 'stop-interactive' or 'interactive-input' reaches it.
C26_HandleTracksLiveProcess ==
  \A p \in LiveProcesses : currentInteractiveProcess = p

\* the runs that compiled the executable and have a test case left whose
\* child is still to be spawned from it
RunsWithCasesLeft ==
  {r \in 1..Len(runs) :
     runs[r].pc = "running" /\ runs[r].i < Len(runs[r].testCases)}

\* C28: the executable exists as long as a run that compiled it has a test
\* case left to execute or an interactive process started from it is
\* running.
C28_ExecutableOutlivesUsers ==
  (RunsWithCasesLeft # {} \/ LiveProcesses # {}) => exe

(***************************************************************************)
(* Runs under the scheduling the platform gives: the extension host        *)
(* handles every message it received, the compiler returns, a child either *)
(* closes or meets the 2000 ms timer, and the webview handles every        *)
(* message posted to it.  Nothing obliges the user to click.               *)
(***************************************************************************)
FairRuns ==
  /\ WF_vars(runTests)
  /\ \A r \in 1..MaxVerdictRuns :
       WF_vars(\E error \in BOOLEAN : compileCallback(r, error))
  /\ \A r \in 1..MaxVerdictRuns :
       WF_vars(\E output \in Outputs, error \in ErrorTexts :
                 \/ timerFires(r, output, error)
                 \/ \E code \in ExitCodes : childClose(r, output, error, code))
  /\ WF_vars(webviewMessage)

SpecRunsFair == SpecVerdicts /\ FairRuns

\* C27: after a 'run' command disabled the Run button, the extension
\* eventually posts 'finished' or 'compile-error' and the Run button is
\* eventually enabled again, on every path of runTests.
C27_RunButtonReenabled ==
  webview.runBtnDisabled ~> ~webview.runBtnDisabled

(***************************************************************************)
(* analyzeBlock step by step.  The analysis of a function is a stack of    *)
(* pending calls: analyzeBlock(node) walks the subtree for the signature,  *)
(* asks the registry, walks the subtree again for the self-calls, and then *)
(* calls itself on the loop bodies, blocks and conditionals among the      *)
(* children of node, one after the other.  The walk follows the control    *)
(* flow; the values are the ones of analyzeBlock above.                    *)
(***************************************************************************)
\* one frame of the given kind per node, in the order of the nodes
Frames(kind, nodes) ==
  [k \in 1..Len(nodes) |-> [kind |-> kind, node |-> nodes[k]]]

RECURSIVE NestedCallsFrom(_, _)
\* the nodes analyzeBlock hands to itself in `for (const child of children)`,
\* from child i on, in order
NestedCallsFrom(children, i) ==
  IF i > Len(children) THEN <<>>
  ELSE (IF isLoop(children[i]) THEN <<BodyOf(children[i])>>
        ELSE IF children[i].type \in {"compound_statement", "if_statement"}
             THEN <<children[i]>>
             ELSE <<>>)
       \o NestedCallsFrom(children, i + 1)

\* a loop over the children that calls analyzeBlock on the node itself
NestedCallsWithSelf(node) ==
  <<node>> \o NestedCallsFrom(node.children, 1)

NestedCalls(node) == NestedCallsFrom(node.children, 1)

\* the longest analysis the model follows
MaxWalkSteps == 400

\* the walk after one step that replaces the top frame by the given frames
Replaced(frames) ==
  [walk EXCEPT !.stack = frames \o Tail(walk.stack), !.steps = @ + 1]

Stepping(kind) ==
  /\ walk.active
  /\ walk.stack # <<>>
  /\ Head(walk.stack).kind = kind
  /\ walk.steps < MaxWalkSteps

\* provideCodeLenses calls analyzeBlock on the body of the function
StartAnalysis ==
  /\ ~walk.active
  /\ walk' = [active |-> TRUE, stack |-> <<[kind |-> "analyzeBlock", node |-> tree]>>,
              steps |-> 0]
  /\ lens' = NoLens
  /\ UNCHANGED <<tree, funcName, registry, calc, runnerVars>>

\* analyzeBlock(node) is entered: the signature first, the registry next
EnterBlock ==
  /\ Stepping("analyzeBlock")
  /\ walk' = Replaced(<<[kind |-> "signature", node |-> Head(walk.stack).node],
                        [kind |-> "match", node |-> Head(walk.stack).node]>>)
  /\ UNCHANGED <<tree, funcName, registry, lens, calc, runnerVars>>

\* traverse of getStructureSignature on one node: its type, then its children
VisitSignature ==
  /\ Stepping("signature")
  /\ walk' = Replaced(Frames("signature", Head(walk.stack).node.children))
  /\ UNCHANGED <<tree, funcName, registry, lens, calc, runnerVars>>

\* AlgorithmRegistry.match on the finished signature: a hit returns, a miss
\* goes on to analyzeRecursion
MatchSignature ==
  /\ Stepping("match")
  /\ walk' =
       IF match(RulesOf(registry), getStructureSignature(Head(walk.stack).node)) # NoAlgo
       THEN Replaced(<<>>)
       ELSE Replaced(<<[kind |-> "traverse", node |-> Head(walk.stack).node],
                       [kind |-> "recursion", node |-> Head(walk.stack).node]>>)
  /\ UNCHANGED <<tree, funcName, registry, lens, calc, runnerVars>>

\* traverse of analyzeRecursion on one node: the call test, then its children
VisitCalls ==
  /\ Stepping("traverse")
  /\ walk' = Replaced(Frames("traverse", Head(walk.stack).node.children))
  /\ UNCHANGED <<tree, funcName, registry, lens, calc, runnerVars>>

\* the end of analyzeRecursion: a recursive block returns, any other goes
\* on to the loop over its children and the nested calls of analyzeBlock
ClassifyRecursion ==
  /\ Stepping("recursion")
  /\ walk' =
       IF analyzeRecursion(Head(walk.stack).node, funcName) # NoRecursion
       THEN Replaced(<<>>)
       ELSE Replaced(Frames("analyzeBlock", NestedCalls(Head(walk.stack).node)))
  /\ UNCHANGED <<tree, funcName, registry, lens, calc, runnerVars>>

\* the outermost analyzeBlock returned: the lens gets its result
FinishAnalysis ==
  /\ walk.active
  /\ walk.stack = <<>>
  /\ walk' = NoWalk
  /\ lens' = analyzeBlock(tree, funcName, RulesOf(registry))
  /\ UNCHANGED <<tree, funcName, registry, calc, runnerVars>>

(***************************************************************************)
(* SpecWalk: the analysis runs to its end between two edits (the provider  *)
(* is synchronous), on functions made of braced loops and conditionals     *)
(* around plain statements and self-calls.                                 *)
(***************************************************************************)
MaxWalkStatements == 4

WalkStatements ==
  {SimpleStmt, CallStmt(<<"f">>, <<"(", "n", "-", "1", ")">>)}

WalkWrappers == {"braced_for", "if"}

Analysis ==
  \/ EnterBlock
  \/ VisitSignature
  \/ MatchSignature
  \/ VisitCalls
  \/ ClassifyRecursion
  \/ FinishAnalysis

NextWalk ==
  \/ ~walk.active /\ \E stmt \in WalkStatements : AppendStatement(stmt, MaxWalkStatements)
  \/ ~walk.active /\ \E wrapper \in WalkWrappers : WrapLast(wrapper, MaxWalkStatements)
  \/ ~walk.active /\ JoinLastTwo(MaxWalkStatements)
  \/ StartAnalysis
  \/ Analysis

SpecWalk == InitPlain /\ [][NextWalk]_vars /\ WF_vars(Analysis)

\* C30: every analysis that starts, on any tree and for any function name,
\* comes to its end and leaves a result in the lens.
C30_AnalysisTerminates ==
  walk.active ~> (~walk.active /\ lens # NoLens)

\* an analysis that went two levels down (a block inside a loop body or a
\* conditional) has returned from all of its calls
C30_Witness ==
  /\ walk.active
  /\ walk.stack = <<>>
  /\ \E outer \in NestedBlocks(tree) : NestedBlocks(outer) # {}

====
